---- MODULE Spec2Model ----
(***************************************************************************)
(* Model of the Ribaah backend: the friend-request routes, the message     *)
(* routes and the Socket.IO presence handlers, with the two Mongoose       *)
(* models they use.  Every route handler is a process that takes one step  *)
(* per awaited storage call; the synchronous code that follows an await is *)
(* part of the step of that await.                                         *)
(***************************************************************************)
EXTENDS Integers, Sequences, FiniteSets

VARIABLES friends, requests, messages, proc,
          connectedUsers, socketUserId, sockets, emitted

vars == <<friends, requests, messages, proc,
          connectedUsers, socketUserId, sockets, emitted>>

dbVars == <<friends, requests, messages>>
ioVars == <<connectedUsers, socketUserId, sockets>>

(***************************************************************************)
(* Bounds                                                                  *)
(***************************************************************************)
MaxRequests == 2
MaxMessages == 3
MaxLimit == 2
MaxPage == 2

Users == {"u1", "u2", "u3"}
\* the users who call the friends routes
Callers == {"u1", "u2"}
Procs == {"p1", "p2"}
Conns == {"c1", "c2"}
NoUser == "none"
NoConn == "none"
\* identifiers a client can put in a request: the users, one well-formed id
\* of no user, and a missing id
UnknownId == "ux"
MissingId == ""
ClientIds == Callers \cup {UnknownId, MissingId}

(***************************************************************************)
(* Values as JavaScript sees them: an ObjectId is an object, its           *)
(* toString() a string, and === on an object and a string is false.        *)
(***************************************************************************)
ObjectId(h) == [kind |-> "ObjectId", hex |-> h]
Str(h) == [kind |-> "string", hex |-> h]
ToString(v) == [kind |-> "string", hex |-> v.hex]
StrictEquals(a, b) == a.kind = "string" /\ b.kind = "string" /\ a.hex = b.hex
Truthy(v) == ~(v.kind = "string" /\ v.hex = "")

(***************************************************************************)
(* Arrays of the User documents                                            *)
(***************************************************************************)
Range(s) == {s[i] : i \in 1..Len(s)}
\* MongooseArray.includes casts its argument, so it compares by hex value
Includes(arr, v) == \E i \in 1..Len(arr) : arr[i] = v.hex
Occurrences(arr, u) == Cardinality({i \in 1..Len(arr) : arr[i] = u})
AddToSet(arr, u) == IF u \in Range(arr) THEN arr ELSE Append(arr, u)
\* a $pull that empties the array
PullAll(arr, u) == <<>>
Pull(arr, u) == SelectSeq(arr, LAMBDA x : x # u)

(***************************************************************************)
(* FriendRequest collection                                                *)
(***************************************************************************)
RequestIds == 1..Len(requests)
\* the unique index { sender: 1, recipient: 1 }
UniqueIndexHit(s, r) ==
    \E i \in RequestIds : requests[i].sender = s /\ requests[i].recipient = r
\* a filter that forgets the second branch of the $or
PendingBetweenOneWay(s, r) ==
    {i \in RequestIds :
        /\ requests[i].status = "pending"
        /\ requests[i].sender = s /\ requests[i].recipient = r}
\* the filter of checkExistingRelation's findOne
PendingBetween(s, r) ==
    {i \in RequestIds :
        /\ requests[i].status = "pending"
        /\ \/ requests[i].sender = s /\ requests[i].recipient = r
           \/ requests[i].sender = r /\ requests[i].recipient = s}
FirstOf(S) == CHOOSE i \in S : \A j \in S : i <= j
\* the result of checkExistingRelation once the sender's friends are known
\* not to include the recipient
RelationOfRequest(senderId, recipientId) ==
    LET found == PendingBetween(senderId.hex, recipientId.hex)
    IN IF found = {} THEN "none"
       ELSE IF StrictEquals(ToString(ObjectId(requests[FirstOf(found)].sender)),
                            senderId)
            THEN "sent" ELSE "received"

(***************************************************************************)
(* Handler processes                                                       *)
(***************************************************************************)
Idle == [pc |-> "idle", op |-> "none", user |-> NoUser, other |-> NoUser,
         rid |-> 0, page |-> 0, limit |-> 0, status |-> 0, msg |-> "none",
         ret |-> <<>>]

Call(o, u, x, id, next) ==
    [pc |-> next, op |-> o, user |-> u, other |-> x,
     rid |-> id, page |-> 0, limit |-> 0, status |-> 0, msg |-> "none",
     ret |-> <<>>]

Respond(c, code, text) == [c EXCEPT !.pc = "done", !.status = code, !.msg = text]

Init ==
    /\ friends = [u \in Users |-> <<>>]
    /\ requests = <<>>
    /\ messages = <<>>
    /\ proc = [p \in Procs |-> Idle]
    /\ connectedUsers = [u \in Users |-> NoConn]
    /\ socketUserId = [c \in Conns |-> NoUser]
    /\ sockets = [c \in Conns |-> "new"]
    /\ emitted = <<>>

\* a worker takes a request when it is not inside a handler; the last
\* response stays recorded until then
Ready(p) == proc[p].pc \in {"idle", "done"}

(***************************************************************************)
(* POST /api/friends/request                                               *)
(***************************************************************************)
\* validation and User.findById(recipientId); users are never created or
\* deleted by these routes, so the lookup is taken with the call
SendRequestStart(p, u, rcp) ==
    /\ Ready(p)
    /\ LET c == Call("sendRequest", u, rcp, 0, "sr_findSender")
           recipientId == Str(rcp)
           senderId == ObjectId(u)
       IN proc' = [proc EXCEPT ![p] =
            IF ~Truthy(recipientId)
            THEN Respond(c, 400, "Recipient ID is required")
            ELSE IF StrictEquals(ToString(senderId), recipientId)
            THEN Respond(c, 400, "You cannot send a friend request to yourself")
            ELSE IF rcp \notin Users
            THEN Respond(c, 404, "User not found")
            ELSE c]
    /\ UNCHANGED <<dbVars, ioVars>> /\ emitted' = <<>>

\* checkExistingRelation: User.findById(senderId) and the friends test
SendRequestFindSender(p) ==
    /\ proc[p].pc = "sr_findSender"
    /\ proc' = [proc EXCEPT ![p] =
            IF Includes(friends[proc[p].user], Str(proc[p].other))
            THEN Respond(@, 400, "You are already friends with this user")
            ELSE [@ EXCEPT !.pc = "sr_findOne"]]
    /\ UNCHANGED <<dbVars, ioVars>> /\ emitted' = <<>>

\* checkExistingRelation: findOne of a pending request in either direction
SendRequestFindOne(p) ==
    /\ proc[p].pc = "sr_findOne"
    /\ LET rel == RelationOfRequest(ObjectId(proc[p].user), Str(proc[p].other))
       IN proc' = [proc EXCEPT ![p] =
            IF rel = "sent"
            THEN Respond(@, 400, "Friend request already sent")
            ELSE IF rel = "received"
            THEN Respond(@, 400, "You have a pending friend request from this user")
            ELSE [@ EXCEPT !.pc = "sr_save"]]
    /\ UNCHANGED <<dbVars, ioVars>> /\ emitted' = <<>>

\* friendRequest.save(): an insert, refused by the unique index
SendRequestSave(p) ==
    /\ proc[p].pc = "sr_save"
    /\ IF UniqueIndexHit(proc[p].user, proc[p].other)
       THEN /\ proc' = [proc EXCEPT ![p] = Respond(@, 500, "Server error")]
            /\ UNCHANGED requests
       ELSE /\ Len(requests) < MaxRequests
            /\ requests' = Append(requests,
                   [sender |-> proc[p].user, recipient |-> proc[p].other,
                    status |-> "pending"])
            /\ proc' = [proc EXCEPT ![p] =
                   Respond([@ EXCEPT !.rid = Len(requests) + 1], 201,
                           "Friend request sent successfully")]
    /\ UNCHANGED <<friends, messages, ioVars>> /\ emitted' = <<>>

(***************************************************************************)
(* PUT /api/friends/request/:id/accept                                     *)
(***************************************************************************)
\* a lookup by _id and status that forgets the recipient
AcceptFindOneAnyRecipient(p, u, id) ==
    /\ Ready(p)
    /\ LET c == Call("accept", u, NoUser, id, "acc_save")
       IN proc' = [proc EXCEPT ![p] =
            IF /\ id \in RequestIds
               /\ requests[id].status = "pending"
            THEN [c EXCEPT !.other = requests[id].sender]
            ELSE Respond(c, 404, "Friend request not found")]
    /\ UNCHANGED <<dbVars, ioVars>> /\ emitted' = <<>>

\* FriendRequest.findOne({_id, recipient, status: 'pending'})
AcceptFindOne(p, u, id) ==
    /\ Ready(p)
    /\ LET c == Call("accept", u, NoUser, id, "acc_save")
       IN proc' = [proc EXCEPT ![p] =
            IF /\ id \in RequestIds
               /\ requests[id].recipient = u
               /\ requests[id].status = "pending"
            THEN [c EXCEPT !.other = requests[id].sender]
            ELSE Respond(c, 404, "Friend request not found")]
    /\ UNCHANGED <<dbVars, ioVars>> /\ emitted' = <<>>

\* a save that writes nothing: the status stays as it is
AcceptSaveNothing(p) ==
    /\ proc[p].pc = "acc_save"
    /\ requests' = requests
    /\ proc' = [proc EXCEPT ![p].pc = "acc_addSender"]
    /\ UNCHANGED <<friends, messages, ioVars>> /\ emitted' = <<>>

\* friendRequest.status = 'accepted'; friendRequest.save(): an update by _id
AcceptSave(p) ==
    /\ proc[p].pc = "acc_save"
    /\ requests' = [requests EXCEPT ![proc[p].rid].status = "accepted"]
    /\ proc' = [proc EXCEPT ![p].pc = "acc_addSender"]
    /\ UNCHANGED <<friends, messages, ioVars>> /\ emitted' = <<>>

\* User.findByIdAndUpdate(userId, {$addToSet: {friends: sender}})
AcceptAddSender(p) ==
    /\ proc[p].pc = "acc_addSender"
    /\ friends' = [friends EXCEPT ![proc[p].user] = AddToSet(@, proc[p].other)]
    /\ proc' = [proc EXCEPT ![p].pc = "acc_addUser"]
    /\ UNCHANGED <<requests, messages, ioVars>> /\ emitted' = <<>>

\* User.findByIdAndUpdate(sender, {$addToSet: {friends: userId}})
AcceptAddUser(p) ==
    /\ proc[p].pc = "acc_addUser"
    /\ friends' = [friends EXCEPT ![proc[p].other] = AddToSet(@, proc[p].user)]
    /\ proc' = [proc EXCEPT ![p] = Respond(@, 200, "Friend request accepted")]
    /\ UNCHANGED <<requests, messages, ioVars>> /\ emitted' = <<>>

(***************************************************************************)
(* PUT /api/friends/request/:id/reject                                     *)
(***************************************************************************)
\* FriendRequest.findOneAndUpdate({_id, recipient, status: 'pending'},
\*                                {status: 'rejected'})
Reject(p, u, id) ==
    /\ Ready(p)
    /\ LET c == Call("reject", u, NoUser, id, "done")
           hit == /\ id \in RequestIds
                  /\ requests[id].recipient = u
                  /\ requests[id].status = "pending"
       IN /\ requests' = IF hit THEN [requests EXCEPT ![id].status = "rejected"]
                         ELSE requests
          /\ proc' = [proc EXCEPT ![p] =
                IF hit THEN Respond(c, 200, "Friend request rejected")
                ELSE Respond(c, 404, "Friend request not found")]
    /\ UNCHANGED <<friends, messages, ioVars>> /\ emitted' = <<>>

(***************************************************************************)
(* DELETE /api/friends/:friendId                                           *)
(***************************************************************************)
\* User.findById(userId) and the friends test
RemoveFriendFind(p, u, f) ==
    /\ Ready(p)
    /\ LET c == Call("removeFriend", u, f, 0, "rf_pullFriend")
       IN proc' = [proc EXCEPT ![p] =
            IF ~Includes(friends[u], Str(f))
            THEN Respond(c, 400, "You are not friends with this user")
            ELSE c]
    /\ UNCHANGED <<dbVars, ioVars>> /\ emitted' = <<>>

\* User.findByIdAndUpdate(userId, {$pull: {friends: friendId}})
RemoveFriendPullFriend(p) ==
    /\ proc[p].pc = "rf_pullFriend"
    /\ friends' = [friends EXCEPT ![proc[p].user] = Pull(@, proc[p].other)]
    /\ proc' = [proc EXCEPT ![p].pc = "rf_pullUser"]
    /\ UNCHANGED <<requests, messages, ioVars>> /\ emitted' = <<>>

\* User.findByIdAndUpdate(friendId, {$pull: {friends: userId}})
RemoveFriendPullUser(p) ==
    /\ proc[p].pc = "rf_pullUser"
    /\ friends' = [friends EXCEPT ![proc[p].other] = Pull(@, proc[p].user)]
    /\ proc' = [proc EXCEPT ![p] = Respond(@, 200, "Friend removed successfully")]
    /\ UNCHANGED <<requests, messages, ioVars>> /\ emitted' = <<>>

(***************************************************************************)
(* The friend graph service under concurrent requests                      *)
(***************************************************************************)
NextFriends ==
    \/ \E p \in Procs, u \in Callers, rcp \in ClientIds : SendRequestStart(p, u, rcp)
    \/ \E p \in Procs : SendRequestFindSender(p)
    \/ \E p \in Procs : SendRequestFindOne(p)
    \/ \E p \in Procs : SendRequestSave(p)
    \/ \E p \in Procs, u \in Callers, id \in 1..MaxRequests : AcceptFindOne(p, u, id)
    \/ \E p \in Procs : AcceptSave(p)
    \/ \E p \in Procs : AcceptAddSender(p)
    \/ \E p \in Procs : AcceptAddUser(p)
    \/ \E p \in Procs, u \in Callers, id \in 1..MaxRequests : Reject(p, u, id)
    \/ \E p \in Procs, u \in Callers, f \in Callers : RemoveFriendFind(p, u, f)
    \/ \E p \in Procs : RemoveFriendPullFriend(p)
    \/ \E p \in Procs : RemoveFriendPullUser(p)

SpecFriends == Init /\ [][NextFriends]_vars

(***************************************************************************)
(* Message collection.  createdAt is the position in the log: messages are *)
(* stamped in the order they are saved.                                    *)
(***************************************************************************)
MessageIds == 1..Len(messages)
Space == " "
\* String.prototype.trim, and the trim: true setter of the schema
RECURSIVE TrimLeft(_)
TrimLeft(str) ==
    IF str # <<>> /\ Head(str) = Space THEN TrimLeft(Tail(str)) ELSE str
RECURSIVE TrimRight(_)
TrimRight(str) ==
    IF str # <<>> /\ str[Len(str)] = Space
    THEN TrimRight(SubSeq(str, 1, Len(str) - 1)) ELSE str
Trim(str) == TrimRight(TrimLeft(str))
\* what a client can put in content
Contents == {<<>>, <<Space>>, <<"h">>, <<Space, "h">>}

\* the filter of the conversation query
ConversationIds(u, o) ==
    {i \in MessageIds :
        \/ messages[i].sender = u /\ messages[i].recipient = o
        \/ messages[i].sender = o /\ messages[i].recipient = u}
\* .sort({ createdAt: -1 })
RECURSIVE SortNewestFirst(_)
SortNewestFirst(S) ==
    IF S = {} THEN <<>>
    ELSE LET newest == CHOOSE i \in S : \A j \in S : j <= i
         IN <<newest>> \o SortNewestFirst(S \ {newest})
Skip(q, n) == SubSeq(q, n + 1, Len(q))
Limit(q, n) == SubSeq(q, 1, IF n < Len(q) THEN n ELSE Len(q))
Reverse(q) == [i \in 1..Len(q) |-> q[Len(q) + 1 - i]]
\* the page the conversation route returns, as message ids, oldest first
ConversationPage(u, o, page, limit) ==
    Reverse(Limit(Skip(SortNewestFirst(ConversationIds(u, o)),
                       (page - 1) * limit), limit))
\* an update that reads "the messages just fetched" instead of the filter
UnreadOfPage(p) ==
    {i \in Range(proc[p].ret) :
        /\ messages[i].sender = proc[p].other
        /\ messages[i].recipient = proc[p].user
        /\ ~messages[i].isRead}
\* the filter of the conversation route's updateMany
UnreadFromOther(p) ==
    {i \in MessageIds :
        /\ messages[i].sender = proc[p].other
        /\ messages[i].recipient = proc[p].user
        /\ ~messages[i].isRead}
\* Message.countDocuments({recipient, isRead: false})
CountUnread(log, u) ==
    Cardinality({i \in 1..Len(log) : log[i].recipient = u /\ ~log[i].isRead})

(***************************************************************************)
(* POST /api/messages/send                                                 *)
(***************************************************************************)
\* a send that validates its input and forgets the friends test
MessageSendFindUnchecked(p, u, rcp, content) ==
    /\ Ready(p)
    /\ LET c == [Call("send", u, rcp, 0, "ms_save") EXCEPT !.ret = content]
       IN proc' = [proc EXCEPT ![p] =
            IF ~Truthy(Str(rcp)) \/ content = <<>>
            THEN Respond(c, 400, "Recipient ID and content are required")
            ELSE c]
    /\ UNCHANGED <<dbVars, ioVars>> /\ emitted' = <<>>

\* validation, User.findById(senderId) and the friends test
MessageSendFind(p, u, rcp, content) ==
    /\ Ready(p)
    /\ LET c == [Call("send", u, rcp, 0, "ms_save") EXCEPT !.ret = content]
       IN proc' = [proc EXCEPT ![p] =
            IF ~Truthy(Str(rcp)) \/ content = <<>>
            THEN Respond(c, 400, "Recipient ID and content are required")
            ELSE IF ~Includes(friends[u], Str(rcp))
            THEN Respond(c, 403, "You can only send messages to your friends")
            ELSE c]
    /\ UNCHANGED <<dbVars, ioVars>> /\ emitted' = <<>>

\* a save that writes over the newest message instead of inserting
MessageSendSaveOver(p) ==
    /\ proc[p].pc = "ms_save"
    /\ IF Trim(proc[p].ret) = <<>>
       THEN /\ proc' = [proc EXCEPT ![p] = Respond(@, 500, "Server error")]
            /\ UNCHANGED messages
       ELSE /\ messages # <<>>
            /\ messages' = [messages EXCEPT ![Len(messages)] =
                   [sender |-> proc[p].user, recipient |-> proc[p].other,
                    content |-> Trim(proc[p].ret), isRead |-> FALSE]]
            /\ proc' = [proc EXCEPT ![p] =
                   Respond([@ EXCEPT !.rid = Len(messages)], 201,
                           "Message sent successfully")]
    /\ UNCHANGED <<friends, requests, ioVars>> /\ emitted' = <<>>

\* message.save(): content is required once trimmed
MessageSendSave(p) ==
    /\ proc[p].pc = "ms_save"
    /\ IF Trim(proc[p].ret) = <<>>
       THEN /\ proc' = [proc EXCEPT ![p] = Respond(@, 500, "Server error")]
            /\ UNCHANGED messages
       ELSE /\ Len(messages) < MaxMessages
            /\ messages' = Append(messages,
                   [sender |-> proc[p].user, recipient |-> proc[p].other,
                    content |-> Trim(proc[p].ret), isRead |-> FALSE])
            /\ proc' = [proc EXCEPT ![p] =
                   Respond([@ EXCEPT !.rid = Len(messages) + 1], 201,
                           "Message sent successfully")]
    /\ UNCHANGED <<friends, requests, ioVars>> /\ emitted' = <<>>

(***************************************************************************)
(* GET /api/messages/conversation/:userId                                  *)
(***************************************************************************)
\* User.findById(currentUserId) and the friends test
ConversationFind(p, u, o, page, limit) ==
    /\ Ready(p)
    /\ LET c == [Call("conversation", u, o, 0, "cv_query")
                    EXCEPT !.page = page, !.limit = limit]
       IN proc' = [proc EXCEPT ![p] =
            IF ~Includes(friends[u], Str(o))
            THEN Respond(c, 403, "You can only view conversations with your friends")
            ELSE c]
    /\ UNCHANGED <<dbVars, ioVars>> /\ emitted' = <<>>

\* Message.find(...).sort().limit().skip(), then messages.reverse()
ConversationQuery(p) ==
    /\ proc[p].pc = "cv_query"
    /\ proc' = [proc EXCEPT ![p] =
            [@ EXCEPT !.pc = "cv_updateMany",
                      !.ret = ConversationPage(proc[p].user, proc[p].other,
                                               proc[p].page, proc[p].limit)]]
    /\ UNCHANGED <<dbVars, ioVars>> /\ emitted' = <<>>

\* Message.updateMany({sender: other, recipient: me, isRead: false},
\*                    {isRead: true})
ConversationUpdateMany(p) ==
    /\ proc[p].pc = "cv_updateMany"
    /\ messages' = [i \in MessageIds |->
            IF i \in UnreadFromOther(p)
            THEN [messages[i] EXCEPT !.isRead = TRUE] ELSE messages[i]]
    /\ proc' = [proc EXCEPT ![p] = Respond(@, 200, "none")]
    /\ UNCHANGED <<friends, requests, ioVars>> /\ emitted' = <<>>

(***************************************************************************)
(* PUT /api/messages/:messageId/read                                       *)
(***************************************************************************)
\* an update whose filter forgets isRead: false
MarkReadAgain(p, u, id) ==
    /\ Ready(p)
    /\ LET c == Call("markRead", u, NoUser, id, "done")
           hit == /\ id \in MessageIds
                  /\ messages[id].recipient = u
       IN /\ messages' = IF hit THEN [messages EXCEPT ![id].isRead = TRUE]
                         ELSE messages
          /\ proc' = [proc EXCEPT ![p] =
                IF hit THEN Respond(c, 200, "Message marked as read")
                ELSE Respond(c, 404, "Message not found or already read")]
    /\ UNCHANGED <<friends, requests, ioVars>> /\ emitted' = <<>>

\* Message.findOneAndUpdate({_id, recipient, isRead: false}, {isRead: true})
MarkRead(p, u, id) ==
    /\ Ready(p)
    /\ LET c == Call("markRead", u, NoUser, id, "done")
           hit == /\ id \in MessageIds
                  /\ messages[id].recipient = u
                  /\ ~messages[id].isRead
       IN /\ messages' = IF hit THEN [messages EXCEPT ![id].isRead = TRUE]
                         ELSE messages
          /\ proc' = [proc EXCEPT ![p] =
                IF hit THEN Respond(c, 200, "Message marked as read")
                ELSE Respond(c, 404, "Message not found or already read")]
    /\ UNCHANGED <<friends, requests, ioVars>> /\ emitted' = <<>>

(***************************************************************************)
(* GET /api/messages/unread/count                                          *)
(***************************************************************************)
UnreadCount(p, u) ==
    /\ Ready(p)
    /\ proc' = [proc EXCEPT ![p] =
            Respond([Call("unreadCount", u, NoUser, 0, "done")
                        EXCEPT !.ret = <<CountUnread(messages, u)>>], 200, "none")]
    /\ UNCHANGED <<dbVars, ioVars>> /\ emitted' = <<>>

(***************************************************************************)
(* GET /api/messages/conversations: the aggregate pipeline, stage by stage *)
(***************************************************************************)
\* $match: { $or: [{ sender: userId }, { recipient: userId }] }
MatchStage(u) ==
    {i \in MessageIds : messages[i].sender = u \/ messages[i].recipient = u}
\* $group _id: { $cond: [{ $eq: ['$sender', userId] }, '$recipient', '$sender'] }
GroupKey(i, u) ==
    IF messages[i].sender = u THEN messages[i].recipient ELSE messages[i].sender
\* the $sum operand that counts every unread message of the group
UnreadAnyTerm(i, u) == IF ~messages[i].isRead THEN 1 ELSE 0
\* $cond: [{ $and: [{ $eq: ['$recipient', userId] }, { $eq: ['$isRead', false] }] }, 1, 0]
UnreadTerm(i, u) ==
    IF messages[i].recipient = u /\ ~messages[i].isRead THEN 1 ELSE 0
\* $group over the sorted documents q: lastMessage is the $first document of
\* each group, unreadCount the $sum of the terms
RECURSIVE GroupStage(_, _, _)
GroupStage(q, u, acc) ==
    IF q = <<>> THEN acc
    ELSE LET i == Head(q)
             key == GroupKey(i, u)
             at == {k \in 1..Len(acc) : acc[k].id = key}
         IN GroupStage(Tail(q), u,
                IF at = {}
                THEN Append(acc, [id |-> key, lastMessage |-> i,
                                  unreadCount |-> UnreadTerm(i, u)])
                ELSE [k \in 1..Len(acc) |->
                        IF k \in at
                        THEN [acc[k] EXCEPT !.unreadCount = @ + UnreadTerm(i, u)]
                        ELSE acc[k]])
\* $lookup in users and $unwind: a group whose _id is no user is dropped
LookupStage(q) == SelectSeq(q, LAMBDA g : g.id \in Users)
\* $project: the user, three fields of the last message, the unread count
ProjectStage(q) ==
    [k \in 1..Len(q) |->
        [user |-> q[k].id,
         lastMessage |-> [content |-> messages[q[k].lastMessage].content,
                          createdAt |-> q[k].lastMessage,
                          sender |-> messages[q[k].lastMessage].sender],
         unreadCount |-> q[k].unreadCount]]
\* $sort: { 'lastMessage.createdAt': -1 }
RECURSIVE SortStage(_, _)
SortStage(q, left) ==
    IF left = {} THEN <<>>
    ELSE LET top == CHOOSE k \in left :
                        \A l \in left : q[l].lastMessage.createdAt
                                            <= q[k].lastMessage.createdAt
         IN <<q[top]>> \o SortStage(q, left \ {top})
Aggregate(u) ==
    LET projected == ProjectStage(LookupStage(
                        GroupStage(SortNewestFirst(MatchStage(u)), u, <<>>)))
    IN SortStage(projected, DOMAIN projected)

ListConversations(p, u) ==
    /\ Ready(p)
    /\ proc' = [proc EXCEPT ![p] =
            Respond([Call("listConversations", u, NoUser, 0, "done")
                        EXCEPT !.ret = Aggregate(u)], 200, "none")]
    /\ UNCHANGED <<dbVars, ioVars>> /\ emitted' = <<>>

(***************************************************************************)
(* The message routes on a store in which u1 and u2 are friends and u3,    *)
(* whom u1 has removed from the friends again, has left u1 one message.    *)
(* One worker: the friends do not change here and each claim checked under *)
(* this specification is about one call.                                   *)
(***************************************************************************)
MessageProcs == {"p1"}

InitMessages ==
    /\ friends = [u \in Users |->
            IF u = "u1" THEN <<"u2">> ELSE IF u = "u2" THEN <<"u1">> ELSE <<>>]
    /\ requests = <<[sender |-> "u2", recipient |-> "u1", status |-> "accepted"],
                    [sender |-> "u3", recipient |-> "u1", status |-> "accepted"]>>
    /\ messages = <<[sender |-> "u3", recipient |-> "u1", content |-> <<"h">>,
                     isRead |-> FALSE]>>
    /\ proc = [p \in Procs |-> Idle]
    /\ connectedUsers = [u \in Users |-> NoConn]
    /\ socketUserId = [c \in Conns |-> NoUser]
    /\ sockets = [c \in Conns |-> "new"]
    /\ emitted = <<>>

NextMessages ==
    \/ \E p \in MessageProcs, u \in Users, rcp \in Users \cup {MissingId},
          content \in Contents : MessageSendFind(p, u, rcp, content)
    \/ \E p \in MessageProcs : MessageSendSave(p)
    \/ \E p \in MessageProcs, u \in Users, o \in Users,
          page \in 1..MaxPage, limit \in 1..MaxLimit :
             ConversationFind(p, u, o, page, limit)
    \/ \E p \in MessageProcs : ConversationQuery(p)
    \/ \E p \in MessageProcs : ConversationUpdateMany(p)
    \/ \E p \in MessageProcs, u \in Users, id \in 1..MaxMessages : MarkRead(p, u, id)
    \/ \E p \in MessageProcs, u \in Users : UnreadCount(p, u)
    \/ \E p \in MessageProcs, u \in Users : ListConversations(p, u)

SpecMessages == InitMessages /\ [][NextMessages]_vars

(***************************************************************************)
(* Socket.IO handlers.  emitted holds what the last step emitted: each     *)
(* entry names the socket whose handler emitted it and the sockets it goes *)
(* to.  A route handler emits nothing.                                     *)
(***************************************************************************)
OpenSockets == {c \in Conns : sockets[c] = "open"}
Event(name, c, dest, u, s, d) ==
    [event |-> name, from |-> c, to |-> dest, userId |-> u, senderId |-> s,
     data |-> d]
\* socket.broadcast.emit: every connected socket but the emitting one
Broadcast(c) == OpenSockets \ {c}
\* io.to(socketId): the socket of that id, when it is still connected
Room(id) == OpenSockets \cap {id}
\* connectedUsers.get(userId)
Route(u) == connectedUsers[u]

\* io.on('connection')
Connect(c) ==
    /\ sockets[c] = "new"
    /\ sockets' = [sockets EXCEPT ![c] = "open"]
    /\ emitted' = <<>>
    /\ UNCHANGED <<dbVars, proc, connectedUsers, socketUserId>>

\* socket.on('join')
Join(c, userId) ==
    /\ sockets[c] = "open"
    /\ connectedUsers' = [connectedUsers EXCEPT ![userId] = c]
    /\ socketUserId' = [socketUserId EXCEPT ![c] = userId]
    /\ emitted' = <<Event("user_online", c, Broadcast(c), userId, NoUser, <<>>)>>
    /\ UNCHANGED <<dbVars, proc, sockets>>

\* socket.on('send_message')
SendMessage(c, recipientId, senderId, message) ==
    /\ sockets[c] = "open"
    /\ emitted' =
          IF Route(recipientId) # NoConn
          THEN <<Event("receive_message", c, Room(Route(recipientId)),
                       recipientId, senderId, message)>>
          ELSE <<>>
    /\ UNCHANGED <<dbVars, proc, connectedUsers, socketUserId, sockets>>

\* socket.on('typing')
Typing(c, recipientId, isTyping) ==
    /\ sockets[c] = "open"
    /\ emitted' =
          IF Route(recipientId) # NoConn
          THEN <<Event("user_typing", c, Room(Route(recipientId)),
                       socketUserId[c], NoUser, <<isTyping>>)>>
          ELSE <<>>
    /\ UNCHANGED <<dbVars, proc, connectedUsers, socketUserId, sockets>>

\* socket.on('disconnect')
Disconnect(c) ==
    /\ sockets[c] = "open"
    /\ sockets' = [sockets EXCEPT ![c] = "closed"]
    /\ IF socketUserId[c] # NoUser
       THEN /\ connectedUsers' = [connectedUsers EXCEPT ![socketUserId[c]] = NoConn]
            /\ emitted' = <<Event("user_offline", c, Broadcast(c),
                                  socketUserId[c], NoUser, <<>>)>>
       ELSE /\ emitted' = <<>>
            /\ UNCHANGED connectedUsers
    /\ UNCHANGED <<dbVars, proc, socketUserId>>

(***************************************************************************)
(* The sockets next to the send route, on the store of InitMessages        *)
(***************************************************************************)
NextRealtime ==
    \/ \E c \in Conns : Connect(c)
    \/ \E c \in Conns, u \in Users : Join(c, u)
    \/ \E c \in Conns, r \in Users, s \in Users : SendMessage(c, r, s, <<"h">>)
    \/ \E c \in Conns, r \in Users, t \in BOOLEAN : Typing(c, r, t)
    \/ \E c \in Conns : Disconnect(c)
    \/ \E p \in MessageProcs, u \in Users, rcp \in Users :
          MessageSendFind(p, u, rcp, <<"h">>)
    \/ \E p \in MessageProcs : MessageSendSave(p)

SpecRealtime == InitMessages /\ [][NextRealtime]_vars

(***************************************************************************)
(* Two workers, one request each, on a store that holds one pending        *)
(* request: the double-accept scenario                                     *)
(***************************************************************************)
InitDoubleAccept ==
    /\ friends = [u \in Users |-> <<>>]
    /\ \E s \in Users : \E r \in Users \ {s} :
          requests = <<[sender |-> s, recipient |-> r, status |-> "pending"]>>
    /\ messages = <<>>
    /\ proc = [p \in Procs |-> Idle]
    /\ connectedUsers = [u \in Users |-> NoConn]
    /\ socketUserId = [c \in Conns |-> NoUser]
    /\ sockets = [c \in Conns |-> "new"]
    /\ emitted = <<>>

NextDoubleAccept ==
    \/ \E p \in Procs, u \in Users, id \in 1..MaxRequests :
          proc[p].pc = "idle" /\ AcceptFindOne(p, u, id)
    \/ \E p \in Procs : AcceptSave(p)
    \/ \E p \in Procs : AcceptAddSender(p)
    \/ \E p \in Procs : AcceptAddUser(p)

SpecDoubleAccept == InitDoubleAccept /\ [][NextDoubleAccept]_vars

(***************************************************************************)
(* Two workers, one markRead each, on a store that holds two unread        *)
(* messages: the double-read scenario                                      *)
(***************************************************************************)
InitDoubleRead ==
    /\ friends = [u \in Users |->
            IF u = "u1" THEN <<"u2">> ELSE IF u = "u2" THEN <<"u1">> ELSE <<>>]
    /\ requests = <<[sender |-> "u2", recipient |-> "u1", status |-> "accepted"],
                    [sender |-> "u3", recipient |-> "u1", status |-> "accepted"]>>
    /\ \E s \in {"u1", "u3"} :
          messages = <<[sender |-> "u2", recipient |-> "u1", content |-> <<"h">>,
                        isRead |-> FALSE],
                       [sender |-> s, recipient |-> IF s = "u1" THEN "u2" ELSE "u1",
                        content |-> <<"h">>, isRead |-> FALSE]>>
    /\ proc = [p \in Procs |-> Idle]
    /\ connectedUsers = [u \in Users |-> NoConn]
    /\ socketUserId = [c \in Conns |-> NoUser]
    /\ sockets = [c \in Conns |-> "new"]
    /\ emitted = <<>>

NextDoubleRead ==
    \E p \in Procs, u \in Users, id \in 1..MaxMessages :
        proc[p].pc = "idle" /\ MarkRead(p, u, id)

SpecDoubleRead == InitDoubleRead /\ [][NextDoubleRead]_vars

(***************************************************************************)
(* Two workers removing friends on a store in which one user has the two   *)
(* others as friends                                                       *)
(***************************************************************************)
InitRemoveFriend ==
    /\ \E h \in Users : \E a \in Users \ {h} : \E b \in Users \ {h, a} :
          /\ friends = [u \in Users |-> IF u = h THEN <<a, b>> ELSE <<h>>]
          /\ requests = <<[sender |-> a, recipient |-> h, status |-> "accepted"],
                          [sender |-> b, recipient |-> h, status |-> "accepted"]>>
    /\ messages = <<>>
    /\ proc = [p \in Procs |-> Idle]
    /\ connectedUsers = [u \in Users |-> NoConn]
    /\ socketUserId = [c \in Conns |-> NoUser]
    /\ sockets = [c \in Conns |-> "new"]
    /\ emitted = <<>>

NextRemoveFriend ==
    \/ \E p \in Procs, u \in Users, f \in Users : RemoveFriendFind(p, u, f)
    \/ \E p \in Procs : RemoveFriendPullFriend(p)
    \/ \E p \in Procs : RemoveFriendPullUser(p)

SpecRemoveFriend == InitRemoveFriend /\ [][NextRemoveFriend]_vars

(***************************************************************************)
(* The friend graph service once a request has been rejected               *)
(***************************************************************************)
InitAfterReject ==
    /\ friends = [u \in Users |-> <<>>]
    /\ \E s \in Callers : \E r \in Callers \ {s} :
          requests = <<[sender |-> s, recipient |-> r, status |-> "rejected"]>>
    /\ messages = <<>>
    /\ proc = [p \in Procs |-> Idle]
    /\ connectedUsers = [u \in Users |-> NoConn]
    /\ socketUserId = [c \in Conns |-> NoUser]
    /\ sockets = [c \in Conns |-> "new"]
    /\ emitted = <<>>

SpecAfterReject == InitAfterReject /\ [][NextFriends]_vars

(***************************************************************************)
(* Properties                                                              *)
(***************************************************************************)
\* the pending requests of the unordered pair {a, b}
PendingOfPair(a, b) ==
    {i \in RequestIds : /\ requests[i].status = "pending"
                        /\ {requests[i].sender, requests[i].recipient} = {a, b}}
Finished(p, o) == proc[p].pc = "done" /\ proc[p].op = o
Mutual(a, b) == Occurrences(friends[a], b) = 1 /\ Occurrences(friends[b], a) = 1

\* C1: when both workers have answered an accept of the one pending request,
\* called by its recipient, exactly one answered 200 and the other 404, and
\* sender and recipient are in each other's friends exactly once.
C1_DoubleAccept ==
    \A p \in Procs : \A q \in Procs \ {p} :
        (/\ Finished(p, "accept") /\ Finished(q, "accept")
         /\ proc[p].rid = 1 /\ proc[q].rid = 1
         /\ proc[p].user = requests[1].recipient
         /\ proc[q].user = requests[1].recipient)
        => /\ {proc[p].status, proc[q].status} = {200, 404}
           /\ Mutual(requests[1].sender, requests[1].recipient)

\* C2: at most one pending request exists for each unordered pair of users.
C2_OnePendingPerPair ==
    \A a \in Users, b \in Users : Cardinality(PendingOfPair(a, b)) <= 1

\* C3: a request that is accepted or rejected keeps its status for ever, and
\* no handler adds a friend edge for a request that is rejected.
C3_OneTransition ==
    [][/\ \A id \in RequestIds :
             requests[id].status # "pending"
             => requests'[id].status = requests[id].status
       /\ \A p \in Procs :
             (proc[p].pc \in {"acc_addSender", "acc_addUser"} /\ friends' # friends
              /\ proc'[p] # proc[p])
             => requests[proc[p].rid].status # "rejected"]_vars

\* C4: while a rejected request between sender and recipient exists, they are
\* not friends and no request between them is pending, a step of sendRequest
\* never fails, and its insert creates a pending request and answers 201.
RejectedBetween(a, b) ==
    \E i \in RequestIds :
        /\ requests[i].status = "rejected"
        /\ {requests[i].sender, requests[i].recipient} = {a, b}
NotFriends(a, b) == ~Includes(friends[a], Str(b)) /\ ~Includes(friends[b], Str(a))
InSendRequest(p) == proc[p].pc \in {"sr_findSender", "sr_findOne", "sr_save"}
C4_ResendAfterReject ==
    [][\A p \in Procs :
          (/\ InSendRequest(p) /\ proc'[p] # proc[p]
           /\ RejectedBetween(proc[p].user, proc[p].other)
           /\ NotFriends(proc[p].user, proc[p].other)
           /\ PendingOfPair(proc[p].user, proc[p].other) = {})
          => /\ proc'[p].status \in {0, 201}
             /\ proc[p].pc = "sr_save"
                => /\ proc'[p].status = 201
                   /\ Len(requests') = Len(requests) + 1
                   /\ requests'[Len(requests')] =
                         [sender |-> proc[p].user, recipient |-> proc[p].other,
                          status |-> "pending"]]_vars

\* C5: a sendRequest whose relation check runs while a request between the
\* two users is pending, in either direction, answers 400 with a conflict
\* message, and no step of it before that answer changes the requests.
ConflictMessages ==
    {"You are already friends with this user", "Friend request already sent",
     "You have a pending friend request from this user"}
C5_PendingBlocks ==
    [][\A p \in Procs :
          (/\ proc[p].pc \in {"sr_findSender", "sr_findOne"} /\ proc'[p] # proc[p]
           /\ PendingOfPair(proc[p].user, proc[p].other) # {})
          => /\ requests' = requests
             /\ proc'[p].pc # "sr_save"
             /\ proc'[p].pc = "done"
                => proc'[p].status = 400 /\ proc'[p].msg \in ConflictMessages]_vars

\* both directions are refused while the first request is still pending
C5_Witness ==
    \E p \in Procs : \E q \in Procs \ {p} : \E i \in RequestIds :
        /\ requests[i].status = "pending" /\ Len(requests) = 1
        /\ Finished(p, "sendRequest") /\ Finished(q, "sendRequest")
        /\ proc[p].user = requests[i].sender /\ proc[p].other = requests[i].recipient
        /\ proc[q].user = requests[i].recipient /\ proc[q].other = requests[i].sender
        /\ proc[p].status = 400 /\ proc[q].status = 400
        /\ proc[p].msg \in ConflictMessages /\ proc[q].msg \in ConflictMessages

\* a worker p takes a send or a conversation request towards a user who is not
\* in the caller's friends
StartsTowardsNonFriend(p) ==
    /\ Ready(p) /\ proc'[p] # proc[p]
    /\ proc'[p].op \in {"send", "conversation"}
    /\ proc'[p].other \in Users
    /\ ~(proc'[p].other \in Range(friends[proc'[p].user]))

\* C6 (as claimed): every send and every conversation fetch towards a user
\* who is not in the caller's friends answers 403, persists no message and
\* changes no read-state.
C6_NonFriends403 ==
    [][\A p \in Procs :
          StartsTowardsNonFriend(p)
          => /\ proc'[p].pc = "done" /\ proc'[p].status = 403
             /\ messages' = messages]_vars

\* C6 (amended): every send with content and every conversation fetch towards
\* a user who is not in the caller's friends answers 403, a send without
\* content answers 400, and in either case the call ends there, persists no
\* message and changes no read-state.
C6_NonFriendsRefused ==
    [][\A p \in Procs :
          StartsTowardsNonFriend(p)
          => /\ proc'[p].pc = "done"
             /\ proc'[p].status =
                   IF proc'[p].op = "send" /\ proc'[p].ret = <<>> THEN 400 ELSE 403
             /\ messages' = messages]_vars

\* u1 has been refused the conversation with u3, or a send with content to
\* u3, while the message of u3 to u1 is still unread in the log
C6_Witness ==
    \E p \in Procs :
        /\ proc[p].pc = "done" /\ proc[p].status = 403
        /\ \/ proc[p].op = "conversation"
           \/ proc[p].op = "send" /\ Trim(proc[p].ret) # <<>>
        /\ proc[p].other \in Users
        /\ ~(proc[p].other \in Range(friends[proc[p].user]))
        /\ \E i \in MessageIds :
              /\ messages[i].sender = proc[p].other
              /\ messages[i].recipient = proc[p].user
              /\ ~messages[i].isRead

\* C7: every receive_message that reaches a socket carries a message that is
\* in the message store, with the same sender, recipient and content.
C7_LiveAfterPersist ==
    \A k \in 1..Len(emitted) :
        (emitted[k].event = "receive_message" /\ emitted[k].to # {})
        => \E i \in MessageIds :
              /\ messages[i].sender = emitted[k].senderId
              /\ messages[i].recipient = emitted[k].userId
              /\ messages[i].content = emitted[k].data

\* C8: a join of U on a connection emits user_online exactly when U had no
\* registry entry (a join while another connection holds U emits nothing),
\* and a disconnect emits user_offline for U exactly when the registry maps
\* U to the disconnecting connection, so that join(U,c1), disconnect(c1)
\* gives one online and one offline, and join(U,c1), join(U,c2),
\* disconnect(c1) one online and no offline.
Emits(name, c, u) ==
    \E k \in 1..Len(emitted') :
        /\ emitted'[k].event = name
        /\ emitted'[k].from = c
        /\ emitted'[k].userId = u
Disconnects(c) == sockets[c] = "open" /\ sockets'[c] = "closed"
C8_PresenceBroadcasts ==
    [][\A u \in Users, c \in Conns :
          /\ (Emits("user_online", c, u) /\ connectedUsers[u] # c)
             => connectedUsers[u] = NoConn
          /\ Emits("user_offline", c, u) => connectedUsers[u] = c
          /\ (connectedUsers[u] = NoConn /\ connectedUsers'[u] = c)
             => Emits("user_online", c, u)
          /\ (Disconnects(c) /\ connectedUsers[u] = c /\ socketUserId[c] = u)
             => Emits("user_offline", c, u)]_vars

\* C9: a disconnect of connection c leaves the registry entry of every
\* identity that the registry does not map to c as it is.
C9_StaleDisconnectKeepsEntry ==
    [][\A u \in Users, c \in Conns :
          (Disconnects(c) /\ connectedUsers[u] # c)
          => connectedUsers'[u] = connectedUsers[u]]_vars

\* C10: the updateMany of a conversation fetch by A with B leaves every
\* message from B to A read, changes no other message, and the call answers
\* 200; the unread count of A is then the number of unread messages to A from
\* senders other than B.
C10_FetchMarksAllRead ==
    [][\A p \in Procs :
          (proc[p].pc = "cv_updateMany" /\ proc'[p] # proc[p])
          => LET A == proc[p].user
                 B == proc[p].other
             IN /\ proc'[p].pc = "done" /\ proc'[p].status = 200
                /\ Len(messages') = Len(messages)
                /\ \A i \in MessageIds :
                      IF messages[i].sender = B /\ messages[i].recipient = A
                      THEN messages'[i] = [messages[i] EXCEPT !.isRead = TRUE]
                      ELSE messages'[i] = messages[i]
                /\ CountUnread(messages', A) =
                      Cardinality({i \in MessageIds :
                          /\ messages[i].recipient = A /\ ~messages[i].isRead
                          /\ messages[i].sender # B})]_vars

\* a fetch by A with B has answered; a message from B to A that is not on the
\* returned page is read, a message from another sender to A is still unread
C10_Witness ==
    \E p \in Procs :
        /\ Finished(p, "conversation") /\ proc[p].status = 200
        /\ \E i \in MessageIds \ Range(proc[p].ret) :
              /\ messages[i].sender = proc[p].other
              /\ messages[i].recipient = proc[p].user
              /\ messages[i].isRead
        /\ \E j \in MessageIds :
              /\ messages[j].recipient = proc[p].user
              /\ messages[j].sender # proc[p].other
              /\ ~messages[j].isRead
        /\ proc[p].ret # <<>>

(***************************************************************************)
(* C11: every list of conversations a call has answered with has at most   *)
(* one entry per counterpart, is ordered by the time of the last message,  *)
(* newest first, gives as lastMessage the most recent message exchanged    *)
(* with the counterpart, and as unreadCount the number of unread messages  *)
(* the counterpart has sent to the caller.                                 *)
(***************************************************************************)
ExchangedWith(u, o) ==
    {i \in 1..Len(messages) :
        {messages[i].sender, messages[i].recipient} = {u, o}}
UnreadFrom(u, o) ==
    {i \in 1..Len(messages) :
        messages[i].recipient = u /\ messages[i].sender = o /\ ~messages[i].isRead}
C11_ConversationList ==
    \A p \in Procs : Finished(p, "listConversations") =>
        LET u == proc[p].user
            list == proc[p].ret
        IN /\ \A k, l \in 1..Len(list) : k < l =>
                /\ list[k].user # list[l].user
                /\ list[k].lastMessage.createdAt > list[l].lastMessage.createdAt
           /\ \A k \in 1..Len(list) :
                LET o == list[k].user
                    last == list[k].lastMessage.createdAt
                IN /\ last \in ExchangedWith(u, o)
                   /\ \A i \in ExchangedWith(u, o) : i <= last
                   /\ list[k].lastMessage.content = messages[last].content
                   /\ list[k].lastMessage.sender = messages[last].sender
                   /\ list[k].unreadCount = Cardinality(UnreadFrom(u, o))
\* a list of two conversations, one of them with an unread message each way
C11_Witness ==
    \E p \in Procs :
        /\ Finished(p, "listConversations")
        /\ Len(proc[p].ret) = 2
        /\ \E k \in 1..Len(proc[p].ret) :
            /\ proc[p].ret[k].unreadCount = 1
            /\ UnreadFrom(proc[p].ret[k].user, proc[p].user) # {}

(***************************************************************************)
(* C12: in every state in which no accept and no removeFriend call is      *)
(* part-way through, the friends relation is symmetric and irreflexive.    *)
(***************************************************************************)
PartWay(p) == proc[p].op \in {"accept", "removeFriend"} /\ proc[p].pc # "done"
IsFriendOf(a, b) == \E k \in 1..Len(friends[a]) : friends[a][k] = b
C12_SymmetricWhenQuiet ==
    (\A p \in Procs : ~PartWay(p)) =>
        \A a, b \in Users :
            /\ IsFriendOf(a, b) <=> IsFriendOf(b, a)
            /\ ~IsFriendOf(a, a)

(***************************************************************************)
(* C13: when the insert of a sendRequest meets a pending request of the    *)
(* same sender to the same recipient, which the unique index refuses, the  *)
(* call answers with one of the conflict messages of the relation check.   *)
(***************************************************************************)
DuplicatePending(p) ==
    \E i \in 1..Len(requests) :
        requests[i] = [sender |-> proc[p].user, recipient |-> proc[p].other,
                       status |-> "pending"]
C13_IndexConflictMessage ==
    [][\A p \in Procs :
          (proc[p].pc = "sr_save" /\ proc'[p] # proc[p] /\ DuplicatePending(p))
          => proc'[p].msg \in ConflictMessages]_vars

(***************************************************************************)
(* C14: the step that persists a message of a send to B pushes a           *)
(* receive_message with that message to the connection the registry holds  *)
(* for B when it holds one, and pushes nothing when it holds none; the     *)
(* send answers 201 either way.                                            *)
(***************************************************************************)
Persists(p) ==
    /\ proc[p].op = "send" /\ proc[p].pc = "ms_save"
    /\ Len(messages') = Len(messages) + 1
PushedTo(u) ==
    \E k \in 1..Len(emitted') :
        /\ emitted'[k].event = "receive_message"
        /\ emitted'[k].to = {connectedUsers[u]}
        /\ emitted'[k].data = messages'[Len(messages')].content
C14_PushOnSend ==
    [][\A p \in Procs : Persists(p) =>
          /\ proc'[p].status = 201
          /\ IF connectedUsers[proc[p].other] # NoConn
             THEN PushedTo(proc[p].other)
             ELSE emitted' = <<>>]_vars

(***************************************************************************)
(* C15: an accept or a reject of request id by U goes on (accept) or       *)
(* succeeds (reject) only when, at its lookup, the request exists, is      *)
(* pending and has U as its recipient; in every other case, a call by the  *)
(* request's sender included, it answers 404 and changes no request and no *)
(* friends set.  An accept answers 200 only after such a lookup.           *)
(***************************************************************************)
Starts(p, o) == Ready(p) /\ proc'[p] # proc[p] /\ proc'[p].op = o
MayDecide(u, id) ==
    /\ id \in 1..Len(requests)
    /\ requests[id].recipient = u
    /\ requests[id].status = "pending"
C15_GuardedDecision ==
    [][\A p \in Procs :
          /\ (Starts(p, "accept") \/ Starts(p, "reject")) =>
                IF MayDecide(proc'[p].user, proc'[p].rid)
                THEN /\ proc'[p].op = "accept" => proc'[p].pc = "acc_save"
                     /\ proc'[p].op = "reject" =>
                            /\ proc'[p].status = 200
                            /\ requests'[proc'[p].rid].status = "rejected"
                ELSE /\ proc'[p].pc = "done" /\ proc'[p].status = 404
                     /\ requests' = requests
                     /\ friends' = friends
          /\ (proc'[p] # proc[p] /\ proc'[p].op = "accept" /\ proc'[p].status = 200)
                => proc[p].op = "accept" /\ proc[p].pc = "acc_addUser"]_vars
\* the sender's accept of their own pending request has answered 404, and a
\* reject of a request that is no longer pending has answered 404
C15_Witness ==
    \E p, q \in Procs :
        /\ Finished(p, "accept") /\ proc[p].status = 404
        /\ proc[p].rid \in 1..Len(requests)
        /\ requests[proc[p].rid].sender = proc[p].user
        /\ requests[proc[p].rid].status = "pending"
        /\ Finished(q, "reject") /\ proc[q].status = 404
        /\ proc[q].rid \in 1..Len(requests)
        /\ requests[proc[q].rid].recipient = proc[q].user
        /\ requests[proc[q].rid].status # "pending"

(***************************************************************************)
(* C16: a markRead of message id by U answers 200 and sets exactly that    *)
(* message to read when the message exists, has U as its recipient and is  *)
(* unread; in every other case it answers 404 and changes no message; and  *)
(* when two workers have each answered a markRead of the same message by   *)
(* its recipient, the message having been unread before both, exactly one  *)
(* of them has answered 200.                                               *)
(***************************************************************************)
MayMarkRead(u, id) ==
    /\ id \in 1..Len(messages)
    /\ messages[id].recipient = u
    /\ ~messages[id].isRead
SameRead(p, q) ==
    /\ p # q
    /\ proc'[p].pc = "done" /\ proc'[q].pc = "done"
    /\ proc'[p].op = "markRead" /\ proc'[q].op = "markRead"
    /\ proc'[p].rid = proc'[q].rid /\ proc'[p].user = proc'[q].user
    /\ proc'[p].rid \in 1..Len(messages')
    /\ messages'[proc'[p].rid].recipient = proc'[p].user
C16_MarkReadOnce ==
    [][/\ \A p \in Procs : Starts(p, "markRead") =>
              LET u == proc'[p].user
                  id == proc'[p].rid
              IN IF MayMarkRead(u, id)
                 THEN /\ proc'[p].status = 200
                      /\ messages' = [messages EXCEPT ![id].isRead = TRUE]
                 ELSE /\ proc'[p].status = 404
                      /\ messages' = messages
       /\ \A p, q \in Procs : SameRead(p, q) =>
              {proc'[p].status, proc'[q].status} = {200, 404}]_vars
\* both workers have answered a markRead of message 1 by its recipient
C16_Witness ==
    \E p, q \in Procs :
        /\ p # q
        /\ Finished(p, "markRead") /\ Finished(q, "markRead")
        /\ proc[p].rid = proc[q].rid /\ proc[p].user = proc[q].user
        /\ proc[p].rid \in 1..Len(messages)
        /\ messages[proc[p].rid].recipient = proc[p].user
        /\ proc[p].status = 200 /\ proc[q].status = 404

(***************************************************************************)
(* C17: a removeFriend(U, F) that finds F among U's friends takes exactly  *)
(* F out of U's friends with its first write and exactly U out of F's      *)
(* friends with its second, after which neither holds the other and the    *)
(* call answers 200; no step of it changes another friends set or a friend *)
(* request.  A removeFriend(U, F) that does not find F among U's friends   *)
(* answers 400 and changes no friends set.                                 *)
(***************************************************************************)
FriendsOf(a) == {friends[a][k] : k \in 1..Len(friends[a])}
FriendsAfter(a) == {friends'[a][k] : k \in 1..Len(friends'[a])}
OnlyLoses(a, b) ==
    /\ FriendsAfter(a) = FriendsOf(a) \ {b}
    /\ \A x \in Users \ {a} : friends'[x] = friends[x]
    /\ requests' = requests
C17_RemoveFriendFrame ==
    [][\A p \in Procs :
          /\ Starts(p, "removeFriend") =>
                /\ friends' = friends /\ requests' = requests
                /\ IF proc'[p].other \in FriendsOf(proc'[p].user)
                   THEN proc'[p].pc = "rf_pullFriend"
                   ELSE proc'[p].pc = "done" /\ proc'[p].status = 400
          /\ (proc[p].pc = "rf_pullFriend" /\ proc'[p] # proc[p]) =>
                /\ OnlyLoses(proc[p].user, proc[p].other)
                /\ proc'[p].pc = "rf_pullUser"
          /\ (proc[p].pc = "rf_pullUser" /\ proc'[p] # proc[p]) =>
                /\ OnlyLoses(proc[p].other, proc[p].user)
                /\ proc'[p].pc = "done" /\ proc'[p].status = 200
                /\ proc[p].other \notin FriendsAfter(proc[p].user)
                /\ proc[p].user \notin FriendsAfter(proc[p].other)]_vars
\* a removeFriend has answered 200 and the caller still has another friend,
\* who still has the caller
C17_Witness ==
    \E p \in Procs : \E x \in Users :
        /\ Finished(p, "removeFriend") /\ proc[p].status = 200
        /\ x # proc[p].other
        /\ x \in FriendsOf(proc[p].user)
        /\ proc[p].user \in FriendsOf(x)
        /\ proc[p].other \notin FriendsOf(proc[p].user)
        /\ proc[p].user \notin FriendsOf(proc[p].other)

(***************************************************************************)
(* C18: a sendRequest(A, B) that the relation check refuses answers        *)
(* 'Friend request already sent' when the pending requests between A and B *)
(* were sent by A, 'You have a pending friend request from this user' when *)
(* they were sent by B, and 'You are already friends with this user' when  *)
(* B is among A's friends.                                                 *)
(***************************************************************************)
PendingSentBy(a, b) ==
    /\ PendingOfPair(a, b) # {}
    /\ \A i \in PendingOfPair(a, b) : requests[i].sender = a
C18_RefusalKinds ==
    [][\A p \in Procs :
          /\ (proc[p].pc = "sr_findSender" /\ proc'[p] # proc[p]
              /\ proc[p].other \in FriendsOf(proc[p].user))
             => proc'[p].msg = "You are already friends with this user"
          /\ (proc[p].pc = "sr_findOne" /\ proc'[p] # proc[p]
              /\ PendingSentBy(proc[p].user, proc[p].other))
             => proc'[p].msg = "Friend request already sent"
          /\ (proc[p].pc = "sr_findOne" /\ proc'[p] # proc[p]
              /\ PendingSentBy(proc[p].other, proc[p].user))
             => proc'[p].msg = "You have a pending friend request from this user"]_vars

(***************************************************************************)
(* C19: after every step, whenever B is among A's friends an accepted      *)
(* friend request between A and B exists, and a step that adds a member to *)
(* a friends set is a write of an accept that has passed its lookup.       *)
(***************************************************************************)
AcceptedBetweenAfter(a, b) ==
    \E i \in 1..Len(requests') :
        /\ requests'[i].status = "accepted"
        /\ {requests'[i].sender, requests'[i].recipient} = {a, b}
C19_EdgesFromAccept ==
    [][/\ \A a \in Users : \A b \in FriendsAfter(a) : AcceptedBetweenAfter(a, b)
       /\ \A a \in Users : ~(FriendsAfter(a) \subseteq FriendsOf(a)) =>
             \E p \in Procs :
                /\ proc[p].op = "accept"
                /\ proc[p].pc \in {"acc_addSender", "acc_addUser"}
                /\ proc'[p] # proc[p]
                /\ {proc[p].user, proc[p].other} =
                      {a} \cup (FriendsAfter(a) \ FriendsOf(a))]_vars
\* an accept has answered 200 and its two users hold each other
C19_Witness ==
    \E p \in Procs :
        /\ Finished(p, "accept") /\ proc[p].status = 200
        /\ proc[p].other \in FriendsOf(proc[p].user)
        /\ proc[p].user \in FriendsOf(proc[p].other)
        /\ requests[proc[p].rid].status = "accepted"

(***************************************************************************)
(* C20: no step of send, fetchConversation, listConversations, markRead or *)
(* unreadCount removes a message from the log or changes the sender, the   *)
(* recipient or the content of a message, and a message that is read stays *)
(* read.                                                                   *)
(***************************************************************************)
C20_MessagesImmutable ==
    [][/\ Len(messages') >= Len(messages)
       /\ \A i \in 1..Len(messages) :
            /\ messages'[i].sender = messages[i].sender
            /\ messages'[i].recipient = messages[i].recipient
            /\ messages'[i].content = messages[i].content
            /\ messages[i].isRead => messages'[i].isRead]_vars
\* the log has grown behind a message that has been read, and the worker
\* has since answered a markRead of that message with 404
C20_Witness ==
    \E p \in Procs :
        /\ Finished(p, "markRead") /\ proc[p].status = 404
        /\ proc[p].rid \in 1..Len(messages)
        /\ proc[p].rid < Len(messages)
        /\ messages[proc[p].rid].recipient = proc[p].user
        /\ messages[proc[p].rid].isRead

(***************************************************************************)
(* C21: in every state in which no call is part-way through, no pending    *)
(* friend request exists between two users who hold each other as friends. *)
(***************************************************************************)
C21_NoPendingBetweenFriends ==
    (\A p \in Procs : Ready(p)) =>
        \A a, b \in Users :
            (IsFriendOf(a, b) /\ IsFriendOf(b, a)) => PendingOfPair(a, b) = {}

(***************************************************************************)
(* C22: once a connection has disconnected, the presence registry maps no  *)
(* identity to it.                                                         *)
(***************************************************************************)
C22_NoEntryForClosed ==
    \A c \in Conns : sockets[c] = "closed" =>
        \A u \in Users : connectedUsers[u] # c

====
